---- MODULE Spec2Model ----
(* Beer Game federated knowledge graph: the temporal rule pipeline of         *)
(* temporal_beer_game_rules_v3.py (TemporalBeerGameRuleExecutor), the week    *)
(* orchestrator of advanced_simulation_v3.py (BeerGameOrchestrator) and the   *)
(* order creation of players/base_player.py (Player.create_order).            *)
(*                                                                            *)
(* Each actor owns one repository (partition).  A rule is a SPARQL update     *)
(* posted to one repository: its WHERE part is evaluated on that repository   *)
(* as it is before the update, and all its solutions are applied at once.    *)
(* The rules are not scoped to the week being simulated: "?week a bg:Week"    *)
(* matches every week the repository holds.  Federated queries go to          *)
(* BG_Supply_Chain and see the union of the four repositories.                *)
EXTENDS Integers, Sequences, FiniteSets, TLC

(* ------------------------------------------------------------------------ *)
(* Bounds of the model                                                        *)
(* ------------------------------------------------------------------------ *)
\* run_simulation(weeks): the last week to simulate
MaxWeek == 3
\* store failures (error status, timeout, exception) injected in one behaviour
MaxFaults == 1
\* extra calls of execute_week_rules for a week whose pipeline has completed
MaxReruns == 1
\* calls of Player.play_turn made next to the pipeline
MaxTurns == 1
\* simulate_weeks(start_week, num_weeks): the last week of the game
MaxGameWeek == 3
\* failing player decisions in one week of the game
MaxPlayerFailures == 1

(* ------------------------------------------------------------------------ *)
(* Program constants                                                          *)
(* ------------------------------------------------------------------------ *)
InitStock == 12
InitOrderQty == 4
DefaultDemandRate == 4
DefaultShippingDelay == 2
ShippingDelay == 2
OrderDelay == 1
StableDemand == 4
OscillatingHigh == 8
SpikeDemand == 12
SpikeWeek == 3
\* execute_rule posts the update once: there is no retry loop
PostAttempts == 1
\* start_week of the game
GameStartWeek == 2
\* AlgorithmicPlayer: target_coverage
TargetCoverage == 3

Actors == {"Retailer", "Wholesaler", "Distributor", "Factory"}
\* self.repositories / actor_uris: the order every per-actor loop follows
ActorSeq == <<"Retailer", "Wholesaler", "Distributor", "Factory">>
NActors == Len(ActorSeq)
\* the federation endpoint
SupplyChain == "BG_Supply_Chain"
Weeks == 1..MaxWeek
Patterns == {"stable", "spike"}
\* the quantities AIPlayer.decide may return: max(0, int(order)) of the digits
\* _parse_response found
Decisions == {0, 4, 7}
\* players: the roles played by an AIPlayer; an AlgorithmicPlayer has the others
AIPlayers == {"Retailer"}

Upstream(a) ==
    CASE a = "Retailer" -> "Wholesaler"
      [] a = "Wholesaler" -> "Distributor"
      [] a = "Distributor" -> "Factory"
      [] OTHER -> "None"

(* ------------------------------------------------------------------------ *)
(* xsd:decimal arithmetic, exact: a value is <<numerator, denominator>> in    *)
(* lowest terms with a positive denominator                                   *)
(* ------------------------------------------------------------------------ *)
RECURSIVE Gcd(_, _)
Gcd(a, b) == IF b = 0 THEN a ELSE Gcd(b, a % b)
Abs(x) == IF x < 0 THEN -x ELSE x
Rat(n, d) == LET g == Gcd(Abs(n), d) IN <<n \div g, d \div g>>
RInt(i) == <<i, 1>>
RAdd(x, y) == Rat(x[1] * y[2] + y[1] * x[2], x[2] * y[2])
RSub(x, y) == Rat(x[1] * y[2] - y[1] * x[2], x[2] * y[2])
RMul(x, y) == Rat(x[1] * y[1], x[2] * y[2])
RLt(x, y) == x[1] * y[2] < y[1] * x[2]
RAbs(x) == <<Abs(x[1]), x[2]>>
\* CEIL of a non-negative decimal
RCeil(x) == (x[1] + x[2] - 1) \div x[2]
\* int() of a non-negative float
RInt0(x) == x[1] \div x[2]
\* SUM(?qty) over the rows of a query: one row per (entity, quantity)
RECURSIVE SumQty(_)
SumQty(S) ==
    IF S = {} THEN 0
    ELSE LET e == CHOOSE e \in S : TRUE IN e.qty + SumQty(S \ {e})
\* the one value of an optional property, a default when it is absent
ValueOr(S, dflt) == IF S = {} THEN dflt ELSE CHOOSE v \in S : TRUE

(* ------------------------------------------------------------------------ *)
(* The demand patterns of generate_customer_demand                            *)
(* ------------------------------------------------------------------------ *)
DemandOf(pat, w) ==
    CASE pat = "stable" -> StableDemand
      [] pat = "spike" -> IF w = SpikeWeek THEN SpikeDemand ELSE StableDemand
      [] pat = "oscillating" -> IF w % 2 = 0 THEN OscillatingHigh ELSE StableDemand
      [] pat = "increasing" -> StableDemand + (w - 1)
      [] OTHER -> StableDemand

(* ------------------------------------------------------------------------ *)
(* Entities created by the anchors                                            *)
(* ------------------------------------------------------------------------ *)
\* the values of bg:inventoryCoverage of an ActorMetrics: the snapshot is
\* created with "0.0" and the rule replaces the value, so there is always one
CoverageValues(m) == {m.coverage}
NewMetrics(rate) ==
    [rate |-> rate, coverage |-> RInt(0), covCalc |-> FALSE, suggested |-> 0,
     polCalc |-> FALSE, bullwhip |-> FALSE, stockout |-> FALSE, tempObs |-> {}]
NewInventory(stock, backlog) ==
    [stock |-> stock, backlog |-> backlog, processed |-> FALSE, tempArr |-> {}]
Extend(f, w, v) == [x \in (DOMAIN f) \cup {w} |-> IF x = w THEN v ELSE f[x]]

(* ------------------------------------------------------------------------ *)
(* The SPARQL rules of get_temporal_rules, each as the update of one          *)
(* repository p owned by actor a                                              *)
(* ------------------------------------------------------------------------ *)
\* weeks with a Week entity and an ActorMetrics of the actor
MetricWeeks(p) == p.weeks \cap DOMAIN p.metrics

\* smoothing with even weights
Smoothed_EvenWeights(old, cur) == RAdd(RMul(cur, <<1, 2>>), RMul(old, <<1, 2>>))
\* "DEMAND RATE SMOOTHING": 30% observed (or the old rate), 70% old
Smoothed(old, cur) == RAdd(RMul(cur, <<3, 10>>), RMul(old, <<7, 10>>))
\* FILTER(?changeRatio > 0.05 || ?oldRate = 0)
SmoothingApplies_AtLeast(old, sm) ==
    IF old[1] = 0 THEN TRUE
    ELSE ~RLt(RAbs(RSub(sm, old)), RMul(<<1, 20>>, old))
SmoothingApplies(old, sm) ==
    IF old[1] = 0 THEN TRUE
    ELSE RLt(RMul(<<1, 20>>, old), RAbs(RSub(sm, old)))
SmoothRate(m) ==
    LET sm == Smoothed(m.rate, ValueOr(m.tempObs, m.rate))
    IN IF SmoothingApplies(m.rate, sm) THEN [m EXCEPT !.rate = sm] ELSE m
DemandRateSmoothing(p, a) ==
    [p EXCEPT !.metrics = [w \in DOMAIN p.metrics |->
        IF w \in p.weeks THEN SmoothRate(p.metrics[w]) ELSE p.metrics[w]]]

\* "UPDATE INVENTORY"
\* COALESCE(?customerDemand, ?orderDemand, 0), both read in the repository
DemandThisWeek(p, a, w) ==
    IF w \in DOMAIN p.demand THEN p.demand[w]
    ELSE SumQty({o \in p.orders : o.week = w /\ o.to = a})
Settle_IgnoringArrivals(old, arrivals, demand) ==
    LET afterArrival == old.stock
        totalNeed == demand + old.backlog
    IN [stock |-> IF afterArrival >= totalNeed THEN afterArrival - totalNeed ELSE 0,
        backlog |-> IF afterArrival >= totalNeed THEN 0 ELSE totalNeed - afterArrival]
\* the settlement without the two branches of IF: the plain differences
Settle_Unclamped(old, arrivals, demand) ==
    LET afterArrival == old.stock + arrivals
        totalNeed == demand + old.backlog
    IN [stock |-> afterArrival - totalNeed, backlog |-> totalNeed - afterArrival]
Settle(old, arrivals, demand) ==
    LET afterArrival == old.stock + arrivals
        totalNeed == demand + old.backlog
    IN [stock |-> IF afterArrival >= totalNeed THEN afterArrival - totalNeed ELSE 0,
        backlog |-> IF afterArrival >= totalNeed THEN 0 ELSE totalNeed - afterArrival]
UpdatableWeeks_Processed(p) ==
    {w \in DOMAIN p.inv : /\ w \in p.weeks
                          /\ (w - 1) \in p.weeks
                          /\ (w - 1) \in DOMAIN p.inv}
\* the snapshots the rule's WHERE part matches
UpdatableWeeks(p) ==
    {w \in DOMAIN p.inv : /\ w \in p.weeks
                          /\ ~p.inv[w].processed
                          /\ (w - 1) \in p.weeks
                          /\ (w - 1) \in DOMAIN p.inv}
UpdateInventory(p, a) ==
    [p EXCEPT !.inv = [w \in DOMAIN p.inv |->
        IF w \in UpdatableWeeks(p)
        THEN LET s == Settle(p.inv[w - 1], ValueOr(p.inv[w].tempArr, 0),
                             DemandThisWeek(p, a, w))
             IN [p.inv[w] EXCEPT !.stock = s.stock, !.backlog = s.backlog,
                                 !.processed = TRUE]
        ELSE p.inv[w]]]

\* "INVENTORY COVERAGE CALCULATION"
InventoryCoverage(p, a) ==
    [p EXCEPT !.metrics = [w \in DOMAIN p.metrics |->
        LET m == p.metrics[w]
        IN IF /\ w \in p.weeks
              /\ ~m.covCalc
              /\ w \in DOMAIN p.inv
              /\ m.rate[1] > 0
           THEN [m EXCEPT !.coverage = Rat(p.inv[w].stock * m.rate[2], m.rate[1]),
                          !.covCalc = TRUE]
           ELSE m]]

\* "STOCKOUT RISK DETECTION"
StockoutRisk_LeadTimeOnly(p, a) ==
    [p EXCEPT !.metrics = [w \in DOMAIN p.metrics |->
        LET m == p.metrics[w]
        IN IF w \in p.weeks /\ RLt(m.coverage, RInt(ShippingDelay))
           THEN [m EXCEPT !.stockout = TRUE]
           ELSE m]]
StockoutRisk(p, a) ==
    [p EXCEPT !.metrics = [w \in DOMAIN p.metrics |->
        LET m == p.metrics[w]
        IN IF w \in p.weeks /\ RLt(m.coverage, RInt(ShippingDelay + OrderDelay))
           THEN [m EXCEPT !.stockout = TRUE]
           ELSE m]]

\* "ORDER-UP-TO POLICY"
FinalOrder(rate, currentStock) ==
    LET targetStock == RMul(rate, RInt(ShippingDelay + OrderDelay))
        orderQty == RSub(targetStock, RInt(currentStock))
    IN IF orderQty[1] > 0 THEN RCeil(orderQty) ELSE 0
OrderUpTo(p, a) ==
    [p EXCEPT !.metrics = [w \in DOMAIN p.metrics |->
        LET m == p.metrics[w]
        IN IF w \in p.weeks /\ ~m.polCalc /\ w \in DOMAIN p.inv
           THEN [m EXCEPT !.suggested = FinalOrder(m.rate, p.inv[w].stock),
                          !.polCalc = TRUE]
           ELSE m]]

\* "CREATE ORDERS FROM SUGGESTED": the upstream is read off earlier orders
NewOrder(w, a, u, q, uri) ==
    [week |-> w, by |-> a, to |-> u, qty |-> q, uri |-> uri, amp |-> {}]
\* the rule without FILTER(?suggestedQty > 0)
CreateOrders_AnyQuantity(p, a) ==
    [p EXCEPT !.orders = @ \cup
        {NewOrder(w, a, prev.to, p.metrics[w].suggested, "rule") :
            w \in {x \in MetricWeeks(p) : ~(\E o \in p.orders : o.week = x /\ o.by = a)},
            prev \in {o \in p.orders : o.by = a}}]
OrderExists(p, w, a) == \E o \in p.orders : o.week = w /\ o.by = a
CreateOrders(p, a) ==
    [p EXCEPT !.orders = @ \cup
        {NewOrder(w, a, prev.to, p.metrics[w].suggested, "rule") :
            w \in {x \in MetricWeeks(p) : /\ p.metrics[x].suggested > 0
                                          /\ ~OrderExists(p, x, a)},
            prev \in {o \in p.orders : o.by = a}}]

\* "BULLWHIP DETECTION"
Baseline(p, w) ==
    IF w \in DOMAIN p.demand THEN RInt(p.demand[w]) ELSE p.metrics[w].rate
Amplified_AboveTwo(p, o) ==
    /\ o.week \in MetricWeeks(p)
    /\ Baseline(p, o.week)[1] > 0
    /\ RLt(<<2, 1>>, Rat(o.qty * Baseline(p, o.week)[2], Baseline(p, o.week)[1]))
Amplified(p, o) ==
    /\ o.week \in MetricWeeks(p)
    /\ Baseline(p, o.week)[1] > 0
    /\ RLt(<<13, 10>>, Rat(o.qty * Baseline(p, o.week)[2], Baseline(p, o.week)[1]))
BullwhipDetection(p, a) ==
    [p EXCEPT
        !.metrics = [w \in DOMAIN p.metrics |->
            IF \E o \in p.orders : o.week = w /\ o.by = a /\ Amplified(p, o)
            THEN [p.metrics[w] EXCEPT !.bullwhip = TRUE]
            ELSE p.metrics[w]],
        !.orders = {IF o.by = a /\ Amplified(p, o)
                    THEN [o EXCEPT !.amp =
                            {Rat(o.qty * Baseline(p, o.week)[2], Baseline(p, o.week)[1])}]
                    ELSE o : o \in p.orders}]

\* "TOTAL COST CALCULATION": holdingCost 0.5 and backlogCost 1.0 per unit
RECURSIVE CostOf(_, _)
CostOf(inv, W) ==
    IF W = {} THEN 0
    ELSE LET w == CHOOSE w \in W : TRUE
         IN inv[w].stock + 2 * inv[w].backlog + CostOf(inv, W \ {w})
ProcessedWeeks(p) == {w \in DOMAIN p.inv : p.inv[w].processed}
TotalCost_Accumulating(p, a) ==
    IF ProcessedWeeks(p) = {} THEN p
    ELSE [p EXCEPT !.totalCost =
            {RAdd(ValueOr(p.totalCost, RInt(0)), Rat(CostOf(p.inv, ProcessedWeeks(p)), 2))}]
\* the total being the cost of the latest processed snapshot alone
TotalCost_LatestSnapshot(p, a) ==
    IF ProcessedWeeks(p) = {} THEN p
    ELSE [p EXCEPT !.totalCost =
            {Rat(CostOf(p.inv, {CHOOSE w \in ProcessedWeeks(p) :
                                   \A x \in ProcessedWeeks(p) : x <= w}), 2)}]
TotalCost(p, a) ==
    IF ProcessedWeeks(p) = {} THEN p
    ELSE [p EXCEPT !.totalCost = {Rat(CostOf(p.inv, ProcessedWeeks(p)), 2)}]

RuleNames == {"DEMAND RATE SMOOTHING", "UPDATE INVENTORY",
              "INVENTORY COVERAGE CALCULATION", "STOCKOUT RISK DETECTION",
              "ORDER-UP-TO POLICY", "CREATE ORDERS FROM SUGGESTED",
              "BULLWHIP DETECTION", "TOTAL COST CALCULATION"}
\* self.rules[rule_name] applied to one repository
ApplyRule(name, p, a) ==
    CASE name = "DEMAND RATE SMOOTHING" -> DemandRateSmoothing(p, a)
      [] name = "UPDATE INVENTORY" -> UpdateInventory(p, a)
      [] name = "INVENTORY COVERAGE CALCULATION" -> InventoryCoverage(p, a)
      [] name = "STOCKOUT RISK DETECTION" -> StockoutRisk(p, a)
      [] name = "ORDER-UP-TO POLICY" -> OrderUpTo(p, a)
      [] name = "CREATE ORDERS FROM SUGGESTED" -> CreateOrders(p, a)
      [] name = "BULLWHIP DETECTION" -> BullwhipDetection(p, a)
      [] name = "TOTAL COST CALCULATION" -> TotalCost(p, a)
      [] OTHER -> p

(* ------------------------------------------------------------------------ *)
(* State                                                                      *)
(* ------------------------------------------------------------------------ *)
VARIABLES
    store,      \* repository of each actor
    pattern,    \* demand_pattern of the run
    week,       \* week being simulated
    phase,      \* position of run_simulation / simulate_week
    stage,      \* position of execute_week_rules: index in StageSeq
    idx,        \* position of the per-actor loop: index in ActorSeq
    executed,   \* execute_week_rules: executed
    failed,     \* execute_week_rules: failed
    results,    \* self.results: the weeks whose summary was collected
    faults,     \* store failures so far
    reruns,     \* repeated calls of execute_week_rules so far
    turns,      \* calls of play_turn so far
    snap,       \* the repositories when the repeated call started
    last,       \* the last store access of the pipeline: what it read and wrote
    history,    \* decision_history of each actor's player
    decisions,  \* _execute_player_turns: the week's decision of each role
    pc          \* rules applied actor by actor: the next step of each actor

vars == <<store, pattern, week, phase, stage, idx, executed, failed, results,
          faults, reruns, turns, snap, last, history, decisions, pc>>

Downstream(a) ==
    CASE a = "Wholesaler" -> "Retailer"
      [] a = "Distributor" -> "Wholesaler"
      [] a = "Factory" -> "Distributor"
      [] OTHER -> "None"

NewShipment(w, from, to, q, arrival) ==
    [week |-> w, from |-> from, to |-> to, qty |-> q, arrival |-> arrival]

\* the data loaded before the first run: week 1 of every actor
InitialRepository(a) ==
    [weeks |-> {1},
     metrics |-> (1 :> NewMetrics(RInt(DefaultDemandRate))),
     inv |-> (1 :> NewInventory(InitStock, 0)),
     demand |-> <<>>,
     orders |-> IF Upstream(a) = "None" THEN {}
                ELSE {NewOrder(1, a, Upstream(a), InitOrderQty, "ttl")},
     shipments |-> IF Downstream(a) = "None" THEN {}
                   ELSE {NewShipment(1, a, Downstream(a), InitOrderQty,
                                     1 + ShippingDelay)},
     totalCost |-> {}]

\* a role that has not had its turn this week
NoTurn == [decision |-> 0, outcome |-> "none"]
NoAccess ==
    [name |-> "None", kind |-> "None", actor |-> "None", ok |-> TRUE,
     reads |-> {}, writes |-> {}, attempts |-> 0]

Init ==
    /\ store = [a \in Actors |-> InitialRepository(a)]
    /\ pattern \in Patterns
    /\ week = 0
    /\ phase = "Start"
    /\ stage = 0
    /\ idx = 0
    /\ executed = 0
    /\ failed = 0
    /\ results = <<>>
    /\ faults = 0
    /\ reruns = 0
    /\ turns = 0
    /\ snap = {}
    /\ last = NoAccess
    /\ history = [a \in Actors |-> <<>>]
    /\ decisions = [a \in Actors |-> NoTurn]
    /\ pc = [a \in Actors |-> 0]

\* the outcomes of a store access: "ok", or one of the given failures while
\* the fault budget lasts
Outcomes(failures) == {"ok"} \cup (IF faults < MaxFaults THEN failures ELSE {})
Charge(f) == faults' = IF f = "ok" THEN faults ELSE faults + 1

(* ------------------------------------------------------------------------ *)
(* Endpoints: where each access of the pipeline is posted                     *)
(* ------------------------------------------------------------------------ *)
RuleEndpoint_Federated(a) == IF a = "Factory" THEN SupplyChain ELSE a
\* execute_rule(rule_name, repository): /repositories/{repository}/statements
RuleEndpoint(a) == a
\* query_observed_demand_federated: customer demand, then the orders of week-1
CustomerDemandEndpoint(a) == a
ObservedOrdersEndpoint(a) == SupplyChain
\* query_arriving_shipments_federated
ArrivalsEndpoint(a) == SupplyChain
\* query_incoming_orders_federated
IncomingOrdersEndpoint(a) == SupplyChain
\* set_temp_observed_demand / set_temp_arriving_shipments / the clean-up
TempEndpoint(a) == a
ShipmentEndpoint_Receiver(a, placedBy) == placedBy
\* create_shipments_from_federated_orders: the INSERT DATA of one shipment
ShipmentEndpoint(a, placedBy) == a

\* what a query posted to an endpoint sees
OrdersAt(ep) ==
    IF ep = SupplyChain THEN UNION {store[a].orders : a \in Actors}
    ELSE store[ep].orders
ShipmentsAt(ep) ==
    IF ep = SupplyChain THEN UNION {store[a].shipments : a \in Actors}
    ELSE store[ep].shipments

(* ------------------------------------------------------------------------ *)
(* run_simulation and simulate_week                                           *)
(* ------------------------------------------------------------------------ *)
\* get_existing_weeks: Week entities of the first repository; [] on failure
ExistingWeeks(f) == IF f = "ok" THEN store[ActorSeq[1]].weeks ELSE {}
MaxOf(S) == IF S = {} THEN 0 ELSE CHOOSE m \in S : \A x \in S : x <= m

RunSimulation ==
    /\ phase = "Start"
    /\ \E f \in Outcomes({"query"}) :
        LET max_existing == MaxOf(ExistingWeeks(f))
        IN /\ Charge(f)
           /\ IF max_existing >= MaxWeek
              THEN phase' = "Done" /\ week' = week
              ELSE phase' = "WeekStart" /\ week' = max_existing + 1
    /\ UNCHANGED <<store, pattern, stage, idx, executed, failed, results,
                   reruns, turns, snap, last, history, decisions, pc>>

\* create_week_entity
WithWeek(p, w) == [p EXCEPT !.weeks = @ \cup {w}]
\* create_actor_metrics_snapshot: COALESCE(?prevRate, 4.0), only if absent
WithMetrics(p, w) ==
    IF w \in DOMAIN p.metrics THEN p
    ELSE [p EXCEPT !.metrics = Extend(@, w,
            NewMetrics(IF (w - 1) \in DOMAIN p.metrics
                       THEN p.metrics[w - 1].rate
                       ELSE RInt(DefaultDemandRate)))]
\* create_inventory_snapshot: copies the previous week's snapshot, only if absent
WithInventory(p, w) ==
    IF w \in DOMAIN p.inv \/ (w - 1) \notin DOMAIN p.inv THEN p
    ELSE [p EXCEPT !.inv = Extend(@, w,
            NewInventory(p.inv[w - 1].stock, p.inv[w - 1].backlog))]
\* f is the post that fails, if any, and fa the repository it is sent to
AnchorFailures == {"week", "metrics", "inventory"}
Anchored(p, a, w, f, fa) ==
    LET p1 == IF f = "week" /\ fa = a THEN p ELSE WithWeek(p, w)
        p2 == IF w > 1 /\ ~(f = "metrics" /\ fa = a) THEN WithMetrics(p1, w) ELSE p1
    IN IF w > 1 /\ ~(f = "inventory" /\ fa = a) THEN WithInventory(p2, w) ELSE p2

CreateAnchors ==
    /\ phase = "WeekStart"
    /\ \E f \in Outcomes(AnchorFailures) :
       \E fa \in IF f = "ok" THEN {ActorSeq[1]} ELSE Actors :
        /\ Charge(f)
        /\ store' = [a \in Actors |-> Anchored(store[a], a, week, f, fa)]
    /\ phase' = "AnchorCreated"
    /\ UNCHANGED <<pattern, week, stage, idx, executed, failed, results,
                   reruns, turns, snap, last, history, decisions, pc>>

\* generate_customer_demand: DELETE+INSERT of the Retailer's CustomerDemand
GenerateCustomerDemand ==
    /\ phase = "AnchorCreated"
    /\ \E f \in Outcomes({"update"}) :
        /\ Charge(f)
        /\ store' = IF f = "ok"
                    THEN [store EXCEPT !["Retailer"].demand =
                            Extend(@, week, DemandOf(pattern, week))]
                    ELSE store
    /\ phase' = "DemandInjected"
    /\ UNCHANGED <<pattern, week, stage, idx, executed, failed, results,
                   reruns, turns, snap, last, history, decisions, pc>>

(* ------------------------------------------------------------------------ *)
(* execute_week_rules                                                         *)
(* ------------------------------------------------------------------------ *)
\* the steps with the shipments created before the orders of the week
StageSeq_ShipmentsBeforeOrders == <<
    [kind |-> "observe",   rule |-> 1, name |-> "DEMAND RATE SMOOTHING", counted |-> FALSE],
    [kind |-> "rule",      rule |-> 1, name |-> "DEMAND RATE SMOOTHING", counted |-> FALSE],
    [kind |-> "cleanup",   rule |-> 1, name |-> "DEMAND RATE SMOOTHING", counted |-> FALSE],
    [kind |-> "arrivals",  rule |-> 2, name |-> "UPDATE INVENTORY", counted |-> FALSE],
    [kind |-> "rule",      rule |-> 2, name |-> "UPDATE INVENTORY", counted |-> FALSE],
    [kind |-> "cleanup",   rule |-> 2, name |-> "UPDATE INVENTORY", counted |-> FALSE],
    [kind |-> "rule",      rule |-> 3, name |-> "INVENTORY COVERAGE CALCULATION", counted |-> TRUE],
    [kind |-> "rule",      rule |-> 4, name |-> "STOCKOUT RISK DETECTION", counted |-> TRUE],
    [kind |-> "rule",      rule |-> 5, name |-> "ORDER-UP-TO POLICY", counted |-> TRUE],
    [kind |-> "shipments", rule |-> 7, name |-> "CREATE SHIPMENTS", counted |-> FALSE],
    [kind |-> "rule",      rule |-> 6, name |-> "CREATE ORDERS FROM SUGGESTED", counted |-> TRUE],
    [kind |-> "rule",      rule |-> 8, name |-> "BULLWHIP DETECTION", counted |-> TRUE],
    [kind |-> "rule",      rule |-> 9, name |-> "TOTAL COST CALCULATION", counted |-> TRUE] >>
\* The steps of execute_week_rules in program order; every step loops over
\* the four repositories.  rule is the number of the rule the step belongs to,
\* counted says whether the result of execute_rule is counted one by one.
StageSeq == <<
    [kind |-> "observe",   rule |-> 1, name |-> "DEMAND RATE SMOOTHING", counted |-> FALSE],
    [kind |-> "rule",      rule |-> 1, name |-> "DEMAND RATE SMOOTHING", counted |-> FALSE],
    [kind |-> "cleanup",   rule |-> 1, name |-> "DEMAND RATE SMOOTHING", counted |-> FALSE],
    [kind |-> "arrivals",  rule |-> 2, name |-> "UPDATE INVENTORY", counted |-> FALSE],
    [kind |-> "rule",      rule |-> 2, name |-> "UPDATE INVENTORY", counted |-> FALSE],
    [kind |-> "cleanup",   rule |-> 2, name |-> "UPDATE INVENTORY", counted |-> FALSE],
    [kind |-> "rule",      rule |-> 3, name |-> "INVENTORY COVERAGE CALCULATION", counted |-> TRUE],
    [kind |-> "rule",      rule |-> 4, name |-> "STOCKOUT RISK DETECTION", counted |-> TRUE],
    [kind |-> "rule",      rule |-> 5, name |-> "ORDER-UP-TO POLICY", counted |-> TRUE],
    [kind |-> "rule",      rule |-> 6, name |-> "CREATE ORDERS FROM SUGGESTED", counted |-> TRUE],
    [kind |-> "shipments", rule |-> 7, name |-> "CREATE SHIPMENTS", counted |-> FALSE],
    [kind |-> "rule",      rule |-> 8, name |-> "BULLWHIP DETECTION", counted |-> TRUE],
    [kind |-> "rule",      rule |-> 9, name |-> "TOTAL COST CALCULATION", counted |-> TRUE] >>
NStages == Len(StageSeq)
\* the players deciding after ORDER-UP-TO POLICY
PreStages_ThroughOrderUpTo == CHOOSE i \in 1..NStages : StageSeq[i].name = "ORDER-UP-TO POLICY"
\* _execute_v3_rules_pre runs the steps up to STOCKOUT RISK DETECTION
PreStages == CHOOSE i \in 1..NStages : StageSeq[i].name = "STOCKOUT RISK DETECTION"

\* the rules run in execute_week_rules, or before and after the players'
\* turns of the game
Running(kind) ==
    /\ phase \in {"Rules", "GameRulesPre", "GameRulesPost"}
    /\ stage \in 1..NStages
    /\ StageSeq[stage].kind = kind
Actor == ActorSeq[idx]

\* the per-actor loop, then the next step; the pipeline ends after the last
Advance_ActorMajor ==
    /\ IF stage < NStages
       THEN idx' = idx /\ stage' = stage + 1 /\ phase' = phase
       ELSE IF idx < NActors
            THEN idx' = idx + 1 /\ stage' = 1 /\ phase' = phase
            ELSE idx' = 0 /\ stage' = 0 /\ phase' = "RulesApplied"
Advance ==
    /\ IF idx < NActors
       THEN idx' = idx + 1 /\ stage' = stage /\ phase' = phase
       ELSE IF phase = "GameRulesPre" /\ stage = PreStages
            THEN idx' = 1 /\ stage' = stage /\ phase' = "PlayerTurns"
            ELSE IF stage < NStages
                 THEN idx' = 1 /\ stage' = stage + 1 /\ phase' = phase
                 ELSE /\ idx' = 0
                      /\ stage' = 0
                      /\ phase' = IF phase = "GameRulesPost"
                                  THEN "GameRulesApplied" ELSE "RulesApplied"

Access(ok, reads, writes) ==
    [name |-> StageSeq[stage].name, kind |-> StageSeq[stage].kind, actor |-> Actor,
     ok |-> ok, reads |-> reads, writes |-> writes, attempts |-> PostAttempts]

BeginWeekRules ==
    /\ phase = "DemandInjected"
    /\ phase' = "Rules"
    /\ stage' = 1
    /\ idx' = 1
    /\ executed' = 0
    /\ failed' = 0
    /\ UNCHANGED <<store, pattern, week, results, faults, reruns, turns, snap, last, history, decisions, pc>>

\* AVG(?qty) of the rows; 0 for no rows
AvgQty(S) == IF S = {} THEN RInt(0) ELSE Rat(SumQty(S), Cardinality(S))

\* query_observed_demand_federated for one actor; {} stands for None
ObservedDemand(a, w, f) ==
    LET local == CustomerDemandEndpoint(a)
        found == f # "local" /\ local \in Actors /\ w \in DOMAIN store[local].demand
    IN IF found THEN {RInt(store[local].demand[w])}
       ELSE IF w - 1 < 1 \/ f = "federated" THEN {}
       ELSE {AvgQty({o \in OrdersAt(ObservedOrdersEndpoint(a)) :
                        o.week = w - 1 /\ o.to = a})}
\* whether it went on to the orders of the week before
ObservedAsksOrders(a, w, f) ==
    /\ ~(f # "local" /\ w \in DOMAIN store[CustomerDemandEndpoint(a)].demand)
    /\ w - 1 >= 1
\* set_temp_observed_demand
WithTempObserved(p, w, obs) ==
    IF w \in DOMAIN p.metrics
    THEN [p EXCEPT !.metrics[w].tempObs = @ \cup obs]
    ELSE p

\* steps 1 and 2 of execute_demand_rate_smoothing_with_federation
ObserveDemand ==
    /\ Running("observe")
    /\ \E f \in Outcomes({"local", "federated", "settemp"}) :
        LET obs == ObservedDemand(Actor, week, f)
            r == TempEndpoint(Actor)
        IN /\ f = "federated" => ObservedAsksOrders(Actor, week, "ok")
           /\ f = "settemp" => obs # {}
           /\ Charge(f)
           /\ store' = IF obs # {} /\ f # "settemp"
                       THEN [store EXCEPT ![r] = WithTempObserved(@, week, obs)]
                       ELSE store
           /\ last' = Access(f = "ok",
                             {CustomerDemandEndpoint(Actor)} \cup
                               (IF ObservedAsksOrders(Actor, week, f)
                                THEN {ObservedOrdersEndpoint(Actor)} ELSE {}),
                             IF obs # {} THEN {r} ELSE {})
    /\ Advance
    /\ UNCHANGED <<pattern, week, executed, failed, results, reruns, turns, snap, history, decisions, pc>>

FailedAfter_Uncounted(ok) == failed
\* "if self.execute_rule(rule_name, repo): executed += 1 / else: failed += 1",
\* the loops of rules 3-6 and 8-9 only
FailedAfter(ok) ==
    IF phase = "Rules" /\ StageSeq[stage].counted /\ ~ok THEN failed + 1 ELSE failed
ExecutedAfter(ok) ==
    IF phase = "Rules" /\ StageSeq[stage].counted /\ ok THEN executed + 1 ELSE executed

\* execute_rule: the rule is applied, or the post fails and nothing changes
ExecuteRule ==
    /\ Running("rule")
    /\ \E f \in Outcomes({"failed"}) :
        LET r == RuleEndpoint(Actor)
        IN /\ Charge(f)
           /\ store' = IF f = "ok" /\ r \in Actors
                       THEN [store EXCEPT ![r] = ApplyRule(StageSeq[stage].name, @, r)]
                       ELSE store
           /\ executed' = ExecutedAfter(f = "ok")
           /\ failed' = FailedAfter(f = "ok")
           /\ last' = Access(f = "ok", {r}, {r})
    /\ Advance
    /\ UNCHANGED <<pattern, week, results, reruns, turns, snap, history, decisions, pc>>

\* the DELETE of the temporary values of one repository
WithoutTemp(p, name) ==
    IF name = "DEMAND RATE SMOOTHING"
    THEN [p EXCEPT !.metrics = [w \in DOMAIN @ |-> [@[w] EXCEPT !.tempObs = {}]]]
    ELSE [p EXCEPT !.inv = [w \in DOMAIN @ |-> [@[w] EXCEPT !.tempArr = {}]]]

\* step 4 of both federated rules: self.session.post outside any try: an
\* error status is ignored, an exception leaves execute_week_rules; in the
\* game it is caught by _execute_v3_rules_pre, which gives up its other rules
CleanupTemp ==
    /\ Running("cleanup")
    /\ \E f \in Outcomes({"status", "exception"}) :
        LET r == TempEndpoint(Actor)
        IN /\ Charge(f)
           /\ store' = IF f = "ok"
                       THEN [store EXCEPT ![r] = WithoutTemp(@, StageSeq[stage].name)]
                       ELSE store
           /\ last' = Access(f = "ok", {r}, {r})
           /\ IF f = "exception"
              THEN /\ IF phase = "Rules"
                      THEN phase' = "Aborted" /\ UNCHANGED <<stage, idx>>
                      ELSE phase' = "PlayerTurns" /\ stage' = PreStages /\ idx' = 1
                   /\ UNCHANGED executed
              ELSE /\ Advance
                   /\ executed' = IF phase = "Rules" /\ idx = NActors
                                  THEN executed + NActors ELSE executed
    /\ UNCHANGED <<pattern, week, failed, results, reruns, turns, snap, history, decisions, pc>>

\* query_arriving_shipments_federated: SUM of the shipments arriving this week
ArrivingShipments(a, w, f) ==
    IF f = "federated" THEN 0
    ELSE SumQty({s \in ShipmentsAt(ArrivalsEndpoint(a)) : s.to = a /\ s.arrival = w})
\* set_temp_arriving_shipments
WithTempArriving(p, w, q) ==
    IF w \in DOMAIN p.inv
    THEN [p EXCEPT !.inv[w].tempArr = @ \cup {q}]
    ELSE p

\* steps 1 and 2 of execute_inventory_update_with_federation
QueryArrivals ==
    /\ Running("arrivals")
    /\ \E f \in Outcomes({"federated", "settemp"}) :
        LET r == TempEndpoint(Actor)
        IN /\ Charge(f)
           /\ store' = IF f # "settemp"
                       THEN [store EXCEPT ![r] =
                               WithTempArriving(@, week, ArrivingShipments(Actor, week, f))]
                       ELSE store
           /\ last' = Access(f = "ok", {ArrivalsEndpoint(Actor)}, {r})
    /\ Advance
    /\ UNCHANGED <<pattern, week, executed, failed, results, reruns, turns, snap, history, decisions, pc>>

\* query_incoming_orders_federated: the (placedBy, qty) rows; [] on failure
IncomingOrders_AnyWeek(a, w, f) ==
    IF f = "federated" THEN {}
    ELSE {[by |-> o.by, qty |-> o.qty] :
            o \in {x \in OrdersAt(IncomingOrdersEndpoint(a)) : x.to = a}}
IncomingOrders(a, w, f) ==
    IF f = "federated" THEN {}
    ELSE {[by |-> o.by, qty |-> o.qty] :
            o \in {x \in OrdersAt(IncomingOrdersEndpoint(a)) : x.week = w /\ x.to = a}}
\* the actor's shippingDelay, 2 when it cannot be read
ShippingDelayRead(f) == IF f = "delay" THEN DefaultShippingDelay ELSE ShippingDelay

\* step 7: create_shipments_from_federated_orders for one actor
CreateShipments ==
    /\ Running("shipments")
    /\ \E f \in Outcomes({"federated", "delay", "insert"}) :
        LET rows == IncomingOrders(Actor, week, f)
        IN \E lost \in IF f = "insert" /\ rows # {} THEN rows ELSE {[by |-> "None", qty |-> 0]} :
           /\ f \in {"delay", "insert"} => rows # {}
           /\ Charge(f)
           /\ store' = [r \in Actors |->
                [store[r] EXCEPT !.shipments = @ \cup
                    {NewShipment(week, Actor, o.by, o.qty, week + ShippingDelayRead(f)) :
                        o \in {x \in rows \ {lost} : ShipmentEndpoint(Actor, x.by) = r}}]]
           /\ last' = Access(f = "ok",
                             {IncomingOrdersEndpoint(Actor)} \cup
                               (IF rows # {} THEN {Actor} ELSE {}),
                             {ShipmentEndpoint(Actor, o.by) : o \in rows})
    /\ Advance
    /\ executed' = IF phase = "Rules" /\ idx = NActors
                   THEN executed + NActors ELSE executed
    /\ UNCHANGED <<pattern, week, failed, results, reruns, turns, snap, history, decisions, pc>>

\* get_week_summary, and the result appended to self.results
GetWeekSummary ==
    /\ phase = "RulesApplied"
    /\ phase' = "SummaryCollected"
    /\ results' = Append(results, week)
    /\ snap' = {}
    /\ UNCHANGED <<store, pattern, week, stage, idx, executed, failed, faults,
                   reruns, turns, last, history, decisions, pc>>

\* for week in range(start_week, weeks + 1)
AdvanceWeek_BeforeSummary ==
    /\ phase \in {"RulesApplied", "SummaryCollected"}
    /\ week < MaxWeek
    /\ week' = week + 1
    /\ phase' = "WeekStart"
    /\ UNCHANGED <<store, pattern, stage, idx, executed, failed, results, faults,
                   reruns, turns, snap, last, history, decisions, pc>>
AdvanceWeek ==
    /\ phase = "SummaryCollected"
    /\ week < MaxWeek
    /\ week' = week + 1
    /\ phase' = "WeekStart"
    /\ UNCHANGED <<store, pattern, stage, idx, executed, failed, results, faults,
                   reruns, turns, snap, last, history, decisions, pc>>

\* the loop has ended: the final report
Finish ==
    /\ phase = "SummaryCollected"
    /\ week = MaxWeek
    /\ phase' = "Done"
    /\ UNCHANGED <<store, pattern, week, stage, idx, executed, failed, results,
                   faults, reruns, turns, snap, last, history, decisions, pc>>

Next ==
    \/ RunSimulation
    \/ CreateAnchors
    \/ GenerateCustomerDemand
    \/ BeginWeekRules
    \/ ObserveDemand
    \/ ExecuteRule
    \/ CleanupTemp
    \/ QueryArrivals
    \/ CreateShipments
    \/ GetWeekSummary
    \/ AdvanceWeek
    \/ Finish

Spec == Init /\ [][Next]_vars

(* ------------------------------------------------------------------------ *)
(* Calls a user of the library may add to the run                             *)
(* ------------------------------------------------------------------------ *)
\* execute_week_rules called again for the week whose pipeline has completed
Rerun ==
    /\ phase = "RulesApplied"
    /\ reruns < MaxReruns
    /\ reruns' = reruns + 1
    /\ snap' = {store}
    /\ phase' = "Rules"
    /\ stage' = 1
    /\ idx' = 1
    /\ executed' = 0
    /\ failed' = 0
    /\ UNCHANGED <<store, pattern, week, results, faults, turns, last, history, decisions, pc>>

SpecRerun == Init /\ [][Next \/ Rerun]_vars

\* create_week_entity, create_actor_metrics_snapshot and
\* create_inventory_snapshot called again for the week whose pipeline has
\* completed
RepeatAnchors ==
    /\ phase = "RulesApplied"
    /\ reruns < MaxReruns
    /\ reruns' = reruns + 1
    /\ \E f \in Outcomes(AnchorFailures) :
       \E fa \in IF f = "ok" THEN {ActorSeq[1]} ELSE Actors :
        /\ Charge(f)
        /\ store' = [a \in Actors |-> Anchored(store[a], a, week, f, fa)]
        /\ last' = [name |-> "create_week_entity", kind |-> "anchor", actor |-> fa,
                    ok |-> f = "ok", reads |-> Actors, writes |-> Actors,
                    attempts |-> PostAttempts]
    /\ UNCHANGED <<pattern, week, phase, stage, idx, executed, failed, results,
                   turns, snap, history, decisions, pc>>

SpecAnchors == Init /\ [][Next \/ RepeatAnchors]_vars

\* Player.create_order: INSERT DATA of <actor>_Order_W<week>, nothing for the
\* Factory or for quantity 0
WithPlayerOrder(p, a, w, q) ==
    IF Upstream(a) = "None" \/ q = 0 THEN p
    ELSE [p EXCEPT !.orders = @ \cup {NewOrder(w, a, Upstream(a), q, "player")}]

\* what decide may hand back to play_turn: Player.decide is abstract, a policy
\* may return a negative or a fractional quantity
Returned == {RInt(-3), RInt(4), <<9, 2>>}
Validate_Unclamped(decision) == decision[1] \div decision[2]
\* Player.play_turn, step 3: max(0, int(decision))
Validate(decision) ==
    IF decision[1] <= 0 THEN 0 ELSE decision[1] \div decision[2]
\* a reasoning text, with the week and the decision it describes
Reasoning(text, w, q) == [text |-> text, week |-> w, decision |-> q]
\* Player.get_last_reasoning: None unless the subclass overrides it
NoReasoning == Reasoning("None", 0, 0)
\* the values of bg:currentBacklog of an Inventory: the snapshots are created
\* and updated with bg:backlog, nothing writes bg:currentBacklog
CurrentBacklogValues(inv) == {}
\* Player._query_current_state: one row when the week's Inventory has
\* bg:currentInventory and bg:currentBacklog and the week's metrics exist, the
\* fallback otherwise
Observe(p, w) ==
    IF /\ w \in DOMAIN p.inv
       /\ w \in DOMAIN p.metrics
       /\ CurrentBacklogValues(p.inv[w]) # {}
    THEN [inventory |-> p.inv[w].stock,
          backlog |-> CHOOSE b \in CurrentBacklogValues(p.inv[w]) : TRUE,
          demand_rate |-> p.metrics[w].rate,
          coverage |-> p.metrics[w].coverage]
    ELSE [inventory |-> 0, backlog |-> 0, demand_rate |-> RInt(DefaultDemandRate),
          coverage |-> RInt(0)]
\* the entry logged under the week before
LogEntry_WeekBefore(w, q, observation, reasoning, returned) ==
    [week |-> w - 1, decision |-> q, observation |-> observation,
     reasoning |-> reasoning, returned |-> returned]
\* Player.play_turn: log_entry appended to decision_history; returned is what
\* decide gave before the validation, kept next to the entry
LogEntry(w, q, observation, reasoning, returned) ==
    [week |-> w, decision |-> q, observation |-> observation,
     reasoning |-> reasoning, returned |-> returned]

\* Player.play_turn(week) of the actor's player, deciding q
PlayTurn ==
    /\ phase \in {"DemandInjected", "RulesApplied"}
    /\ turns < MaxTurns
    /\ turns' = turns + 1
    /\ \E a \in Actors, decision \in Returned :
        /\ store' = [store EXCEPT ![a] =
                        WithPlayerOrder(@, a, week, Validate(decision))]
        /\ history' = [history EXCEPT ![a] =
                        Append(@, LogEntry(week, Validate(decision),
                                           Observe(store[a], week), NoReasoning,
                                           decision))]
    /\ UNCHANGED <<pattern, week, phase, stage, idx, executed, failed, results,
                   faults, reruns, snap, last, decisions, pc>>

SpecTurns == Init /\ [][Next \/ Rerun \/ PlayTurn]_vars

(* ------------------------------------------------------------------------ *)
(* GameOrchestratorV3: the week of the game, players deciding between the    *)
(* rules                                                                      *)
(* ------------------------------------------------------------------------ *)
\* simulate_weeks: for week in range(start_week, start_week + num_weeks)
SimulateWeeks ==
    /\ phase = "Start"
    /\ phase' = "GameWeekStart"
    /\ week' = GameStartWeek
    /\ UNCHANGED <<store, pattern, stage, idx, executed, failed, results, faults,
                   reruns, turns, snap, last, history, decisions, pc>>

\* _create_week_entities: the Week entity and both snapshots, whatever the week
GameAnchored(p, a, w, f, fa) ==
    LET p1 == IF f = "week" /\ fa = a THEN p ELSE WithWeek(p, w)
        p2 == IF f = "metrics" /\ fa = a THEN p1 ELSE WithMetrics(p1, w)
    IN IF f = "inventory" /\ fa = a THEN p2 ELSE WithInventory(p2, w)

CreateWeekEntities ==
    /\ phase = "GameWeekStart"
    /\ \E f \in Outcomes(AnchorFailures) :
       \E fa \in IF f = "ok" THEN {ActorSeq[1]} ELSE Actors :
        /\ Charge(f)
        /\ store' = [a \in Actors |-> GameAnchored(store[a], a, week, f, fa)]
    /\ phase' = "GameAnchorCreated"
    /\ decisions' = [a \in Actors |-> NoTurn]
    /\ UNCHANGED <<pattern, week, stage, idx, executed, failed, results,
                   reruns, turns, snap, last, history, pc>>

\* _generate_customer_demand: INSERT DATA of the Retailer's CustomerDemand,
\* then _execute_v3_rules_pre starts
GameCustomerDemand ==
    /\ phase = "GameAnchorCreated"
    /\ \E f \in Outcomes({"update"}) :
        /\ Charge(f)
        /\ store' = IF f = "ok"
                    THEN [store EXCEPT !["Retailer"].demand =
                            Extend(@, week, DemandOf(pattern, week))]
                    ELSE store
    /\ phase' = "GameRulesPre"
    /\ stage' = 1
    /\ idx' = 1
    /\ UNCHANGED <<pattern, week, executed, failed, results, reruns, turns, snap,
                   last, history, decisions, pc>>

\* how a player's decision can fail: the LLM call raises and _call_llm
\* answers "ORDER: 0", the response has no ORDER line _parse_response can
\* read, or play_turn raises (decide, or the post of create_order)
PlayerFailures == {"api_error", "malformed", "exception"}
FailedTurns == {a \in Actors : decisions[a].outcome \in PlayerFailures}
PlayerOutcomes(a) ==
    {"decides"} \cup
    (IF Cardinality(FailedTurns) < MaxPlayerFailures
     THEN (IF a \in AIPlayers THEN PlayerFailures ELSE {"exception"})
     ELSE {})
\* the policy rounding the quantity up
AlgorithmicDecide_RoundedUp(current) ==
    LET target_inventory == RMul(current.demand_rate, RInt(TargetCoverage))
        suggested_order == RAdd(RSub(target_inventory, RInt(current.inventory)),
                                RInt(current.backlog))
    IN IF suggested_order[1] > 0 THEN RCeil(suggested_order) ELSE 0
\* AlgorithmicPlayer.decide
AlgorithmicDecide(current) ==
    LET target_inventory == RMul(current.demand_rate, RInt(TargetCoverage))
        suggested_order == RAdd(RSub(target_inventory, RInt(current.inventory)),
                                RInt(current.backlog))
    IN IF suggested_order[1] > 0 THEN RInt0(suggested_order) ELSE 0
\* what decide may return: any quantity the LLM's response parses to, or the
\* policy's one answer
DecideSet(a, out) ==
    IF out # "decides" THEN {0}
    ELSE IF a \in AIPlayers THEN Decisions
    ELSE {AlgorithmicDecide(Observe(store[a], week))}
\* AlgorithmicPlayer.get_last_reasoning: the text is built from the last
\* entry of decision_history, the one of the turn before while play_turn has
\* not appended its own; week and decision say which turn the text describes
AlgorithmicReasoning(h) ==
    IF h = <<>> THEN Reasoning("No decisions yet", 0, 0)
    ELSE Reasoning("ORDER-UP-TO policy", h[Len(h)].week, h[Len(h)].decision)
\* get_last_reasoning when play_turn builds the entry of week w: an AIPlayer
\* gives the reasoning decide has just parsed from the response
ReasoningOf(a, out, w, q) ==
    IF a \notin AIPlayers THEN AlgorithmicReasoning(history[a])
    ELSE CASE out = "decides" -> Reasoning("REASON", w, q)
           [] out = "api_error" -> Reasoning("API error occurred", w, q)
           [] OTHER -> Reasoning("No reasoning provided", w, q)

\* one iteration of _execute_player_turns: play_turn of the role's player
PlayerTurn ==
    /\ phase = "PlayerTurns"
    /\ \E out \in PlayerOutcomes(Actor) :
       \E decision \in DecideSet(Actor, out) :
        LET q == Validate(RInt(decision))
        IN
        /\ store' = IF out = "exception" THEN store
                    ELSE [store EXCEPT ![Actor] = WithPlayerOrder(@, Actor, week, q)]
        /\ history' = IF out = "exception" THEN history
                      ELSE [history EXCEPT ![Actor] =
                              Append(@, LogEntry(week, q, Observe(store[Actor], week),
                                                 ReasoningOf(Actor, out, week, q),
                                                 RInt(decision)))]
        /\ decisions' = [decisions EXCEPT ![Actor] = [decision |-> q, outcome |-> out]]
    /\ IF idx < NActors
       THEN idx' = idx + 1 /\ stage' = stage /\ phase' = phase
       ELSE idx' = 1 /\ stage' = PreStages + 1 /\ phase' = "GameRulesPost"
    /\ UNCHANGED <<pattern, week, executed, failed, results, faults, reruns, turns,
                   snap, last, pc>>

\* _collect_week_summary, and the result appended to self.week_results
CollectWeekSummary ==
    /\ phase = "GameRulesApplied"
    /\ phase' = "GameSummaryCollected"
    /\ results' = Append(results, week)
    /\ UNCHANGED <<store, pattern, week, stage, idx, executed, failed, faults,
                   reruns, turns, snap, last, history, decisions, pc>>

GameAdvanceWeek ==
    /\ phase = "GameSummaryCollected"
    /\ week < MaxGameWeek
    /\ week' = week + 1
    /\ phase' = "GameWeekStart"
    /\ UNCHANGED <<store, pattern, stage, idx, executed, failed, results, faults,
                   reruns, turns, snap, last, history, decisions, pc>>

\* the loop has ended: _generate_report
GameFinish ==
    /\ phase = "GameSummaryCollected"
    /\ week = MaxGameWeek
    /\ phase' = "GameDone"
    /\ UNCHANGED <<store, pattern, week, stage, idx, executed, failed, results,
                   faults, reruns, turns, snap, last, history, decisions, pc>>

GameNext ==
    \/ SimulateWeeks
    \/ CreateWeekEntities
    \/ GameCustomerDemand
    \/ ObserveDemand
    \/ ExecuteRule
    \/ CleanupTemp
    \/ QueryArrivals
    \/ CreateShipments
    \/ PlayerTurn
    \/ CollectWeekSummary
    \/ GameAdvanceWeek
    \/ GameFinish

SpecGame == Init /\ [][GameNext]_vars

(* ------------------------------------------------------------------------ *)
(* A single rule on a repository: execute_rule(rule_name, repository) applied *)
(* to the week-2 entities of the Retailer's repository, whose values are      *)
(* drawn from the sets below                                                  *)
(* ------------------------------------------------------------------------ *)
InputRates == {RInt(0), RInt(4), RInt(6), <<32, 5>>, RInt(10)}
InputObserved == {{}, {RInt(5)}, {RInt(12)}}
InputStocks == {0, 10}
InputBacklogs == {0, 3}
InputQuantities == {4, 13, 14}
InputDemands == {<<>>, (2 :> 4), (2 :> 10)}
InputTotals == {{}, {RInt(7)}}

InputRepository(a, rate, obs, stock, backlog, processed, settled, qty, demand, total) ==
    [weeks |-> {1, 2},
     metrics |-> (1 :> NewMetrics(RInt(DefaultDemandRate))
                  @@ 2 :> [NewMetrics(rate) EXCEPT !.tempObs = obs]),
     inv |-> (1 :> [NewInventory(InitStock, 0) EXCEPT !.processed = settled]
              @@ 2 :> [NewInventory(stock, backlog) EXCEPT !.processed = processed]),
     demand |-> demand,
     orders |-> {NewOrder(1, a, Upstream(a), InitOrderQty, "ttl"),
                 NewOrder(2, a, Upstream(a), qty, "ttl")},
     shipments |-> {},
     totalCost |-> total]

RuleInit ==
    /\ \E rate \in InputRates, obs \in InputObserved, stock \in InputStocks,
          backlog \in InputBacklogs, processed \in BOOLEAN, settled \in BOOLEAN,
          qty \in InputQuantities, demand \in InputDemands, total \in InputTotals :
          store = [a \in Actors |->
                     IF a = "Retailer"
                     THEN InputRepository(a, rate, obs, stock, backlog, processed,
                                          settled, qty, demand, total)
                     ELSE InitialRepository(a)]
    /\ pattern = "stable"
    /\ week = 2
    /\ phase = "RuleInput"
    /\ stage = 0
    /\ idx = 0
    /\ executed = 0
    /\ failed = 0
    /\ results = <<>>
    /\ faults = 0
    /\ reruns = 0
    /\ turns = 0
    /\ snap = {[a \in Actors |-> store[a]]}
    /\ last = NoAccess
    /\ history = [a \in Actors |-> <<>>]
    /\ decisions = [a \in Actors |-> NoTurn]
    /\ pc = [a \in Actors |-> 0]

\* execute_rule(rule_name, repository), the post succeeding
ExecuteOneRule ==
    /\ phase = "RuleInput"
    /\ \E name \in RuleNames :
        /\ store' = [store EXCEPT !["Retailer"] = ApplyRule(name, @, "Retailer")]
        /\ last' = [name |-> name, kind |-> "rule", actor |-> "Retailer", ok |-> TRUE,
                    reads |-> {"Retailer"}, writes |-> {"Retailer"},
                    attempts |-> PostAttempts]
    /\ phase' = "RuleApplied"
    /\ UNCHANGED <<pattern, week, stage, idx, executed, failed, results, faults,
                   reruns, turns, snap, history, decisions, pc>>

\* AlgorithmicPlayer.decide(observation), the observation holding the
\* repository's week-2 values
DecideOnce ==
    /\ phase = "RuleInput"
    /\ LET p == store["Retailer"]
           current == [inventory |-> p.inv[2].stock, backlog |-> p.inv[2].backlog,
                       demand_rate |-> p.metrics[2].rate]
       IN decisions' = [decisions EXCEPT !["Retailer"] =
                          [decision |-> AlgorithmicDecide(current), outcome |-> "decides"]]
    /\ last' = [name |-> "AlgorithmicPlayer.decide", kind |-> "player",
                actor |-> "Retailer", ok |-> TRUE, reads |-> {}, writes |-> {},
                attempts |-> 0]
    /\ phase' = "Decided"
    /\ UNCHANGED <<store, pattern, week, stage, idx, executed, failed, results,
                   faults, reruns, turns, snap, history, pc>>

SpecRule == RuleInit /\ [][ExecuteOneRule \/ DecideOnce]_vars

(* ------------------------------------------------------------------------ *)
(* The local rules applied actor by actor: each actor goes through its own    *)
(* steps of rule 1, and later of rules 3 to 6, at its own pace.  Rule 2 and   *)
(* rule 7 run as in execute_week_rules, once every actor has finished.        *)
(* ------------------------------------------------------------------------ *)
\* execute_demand_rate_smoothing_with_federation, the steps for one actor
LocalStepsA == <<
    [kind |-> "observe", name |-> "DEMAND RATE SMOOTHING"],
    [kind |-> "rule",    name |-> "DEMAND RATE SMOOTHING"],
    [kind |-> "cleanup", name |-> "DEMAND RATE SMOOTHING"] >>
\* pre_shipment_rules, for one actor
LocalStepsB == <<
    [kind |-> "rule", name |-> "INVENTORY COVERAGE CALCULATION"],
    [kind |-> "rule", name |-> "STOCKOUT RISK DETECTION"],
    [kind |-> "rule", name |-> "ORDER-UP-TO POLICY"],
    [kind |-> "rule", name |-> "CREATE ORDERS FROM SUGGESTED"] >>
LocalSteps == IF phase = "LocalA" THEN LocalStepsA ELSE LocalStepsB
\* the stages of StageSeq that follow rule 1 and rules 3 to 6
StageAfterA == CHOOSE i \in 1..NStages : StageSeq[i].kind = "arrivals"
StageBeforeB == CHOOSE i \in 1..NStages : StageSeq[i].name = "INVENTORY COVERAGE CALCULATION"
StageAfterB == CHOOSE i \in 1..NStages : StageSeq[i].kind = "shipments"

\* an update posted to every repository at once
ApplyLocal_Everywhere(name, st, a) == [b \in Actors |-> ApplyRule(name, st[b], b)]
\* execute_rule(rule_name, repo): the update is posted to the actor's repository
ApplyLocal(name, st, a) == [st EXCEPT ![a] = ApplyRule(name, st[a], a)]

\* the week's pipeline starts with rule 1 applied actor by actor
BeginLocalA ==
    /\ phase = "DemandInjected"
    /\ phase' = "LocalA"
    /\ pc' = [a \in Actors |-> 1]
    /\ snap' = {store}
    /\ executed' = 0
    /\ failed' = 0
    /\ UNCHANGED <<store, pattern, week, stage, idx, results, faults, reruns,
                   turns, last, history, decisions>>

\* rules 3 to 6 applied actor by actor, once rule 2 has ended
BeginLocalB ==
    /\ phase = "Rules"
    /\ stage = StageBeforeB
    /\ idx = 1
    /\ phase' = "LocalB"
    /\ pc' = [a \in Actors |-> 1]
    /\ snap' = {store}
    /\ UNCHANGED <<store, pattern, week, stage, idx, executed, failed, results,
                   faults, reruns, turns, last, history, decisions>>

\* the next step of one actor, every post succeeding
LocalStep ==
    /\ phase \in {"LocalA", "LocalB"}
    /\ \E a \in Actors :
        /\ pc[a] \in 1..Len(LocalSteps)
        /\ LET step == LocalSteps[pc[a]]
               obs == ObservedDemand(a, week, "ok")
           IN /\ store' =
                   CASE step.kind = "observe" ->
                          IF obs # {}
                          THEN [store EXCEPT ![TempEndpoint(a)] =
                                  WithTempObserved(@, week, obs)]
                          ELSE store
                     [] step.kind = "rule" -> ApplyLocal(step.name, store, a)
                     [] OTHER -> [store EXCEPT ![TempEndpoint(a)] =
                                    WithoutTemp(@, step.name)]
              /\ last' = [name |-> step.name, kind |-> step.kind, actor |-> a,
                          ok |-> TRUE, reads |-> {a}, writes |-> {a},
                          attempts |-> PostAttempts]
        /\ pc' = [pc EXCEPT ![a] = @ + 1]
    /\ UNCHANGED <<pattern, week, phase, stage, idx, executed, failed, results,
                   faults, reruns, turns, snap, history, decisions>>

\* every actor has finished: the pipeline goes on with rule 2, or with rule 7
EndLocal ==
    /\ phase \in {"LocalA", "LocalB"}
    /\ \A a \in Actors : pc[a] = Len(LocalSteps) + 1
    /\ phase' = "Rules"
    /\ stage' = IF phase = "LocalA" THEN StageAfterA ELSE StageAfterB
    /\ idx' = 1
    /\ executed' = IF phase = "LocalA" THEN NActors
                   ELSE executed + Len(LocalStepsB) * NActors
    /\ pc' = [a \in Actors |-> 0]
    /\ snap' = {}
    /\ UNCHANGED <<store, pattern, week, failed, results, faults, reruns, turns,
                   last, history, decisions>>

SpecLocal ==
    Init /\ [][Next \/ BeginLocalA \/ BeginLocalB \/ LocalStep \/ EndLocal]_vars

(* ------------------------------------------------------------------------ *)
(* Properties                                                                *)
(* ------------------------------------------------------------------------ *)
AllOrders == UNION {store[a].orders : a \in Actors}
AllShipments == UNION {store[a].shipments : a \in Actors}
FixedOrder ==
    <<"DEMAND RATE SMOOTHING", "UPDATE INVENTORY", "INVENTORY COVERAGE CALCULATION",
      "STOCKOUT RISK DETECTION", "ORDER-UP-TO POLICY", "CREATE ORDERS FROM SUGGESTED",
      "CREATE SHIPMENTS", "BULLWHIP DETECTION", "TOTAL COST CALCULATION">>
Pos(name) == CHOOSE i \in 1..Len(FixedOrder) : FixedOrder[i] = name
ActorPos(a) == CHOOSE i \in 1..NActors : ActorSeq[i] = a
FederatedRules == {"DEMAND RATE SMOOTHING", "UPDATE INVENTORY", "CREATE SHIPMENTS"}
LocalRules ==
    {"INVENTORY COVERAGE CALCULATION", "STOCKOUT RISK DETECTION", "ORDER-UP-TO POLICY",
     "CREATE ORDERS FROM SUGGESTED", "BULLWHIP DETECTION", "TOTAL COST CALCULATION"}

\* C1: whenever UPDATE INVENTORY processes the not yet processed snapshot of
\* an actor A for a week N, then N > 1 and, with oldStock and oldBacklog the
\* stock and backlog of A's week N-1 snapshot, arrivals the arriving quantity
\* handed to the rule for week N (0 if none) and demand the week's demand as
\* the rule reads it: newStock = max(oldStock + arrivals - (demand +
\* oldBacklog), 0), newBacklog = max(demand + oldBacklog - (oldStock +
\* arrivals), 0), hence newStock - newBacklog = oldStock + arrivals - demand
\* - oldBacklog.
C1_InventoryUpdateArithmetic ==
    [][\A a \in Actors : \A N \in Weeks :
        (/\ N \in DOMAIN store[a].inv
         /\ ~store[a].inv[N].processed
         /\ N \in DOMAIN store'[a].inv
         /\ store'[a].inv[N].processed)
        => /\ N > 1
           /\ (N - 1) \in DOMAIN store[a].inv
           /\ LET oldStock == store[a].inv[N - 1].stock
                  oldBacklog == store[a].inv[N - 1].backlog
                  arrivals == ValueOr(store[a].inv[N].tempArr, 0)
                  demand == DemandThisWeek(store[a], a, N)
                  afterArrival == oldStock + arrivals
                  need == demand + oldBacklog
                  newStock == store'[a].inv[N].stock
                  newBacklog == store'[a].inv[N].backlog
              IN /\ newStock = IF afterArrival - need > 0 THEN afterArrival - need ELSE 0
                 /\ newBacklog = IF need - afterArrival > 0 THEN need - afterArrival ELSE 0
                 /\ newStock - newBacklog = oldStock + arrivals - demand - oldBacklog
      ]_vars
\* the Retailer's week-3 snapshot settled with a backlog: demand exceeded
\* stock plus arrivals
C1_Witness ==
    /\ last.name = "UPDATE INVENTORY" /\ last.kind = "rule" /\ last.ok
    /\ last.actor = "Retailer"
    /\ 3 \in DOMAIN store["Retailer"].inv
    /\ store["Retailer"].inv[3].processed
    /\ store["Retailer"].inv[3].backlog > 0

\* C2: when a re-run of the rule pipeline for a completed week has itself
\* completed, every stored value of every actor equals what it was before
\* the re-run.
C2_RerunIsNoOp == (phase = "RulesApplied" /\ snap # {}) => snap = {store}

\* C3: at most one Order exists for each (week, placedBy) pair, with a single
\* quantity, after any sequence of pipelines, re-runs and player turns.
C3_OneOrderPerWeekAndActor ==
    \A o1, o2 \in AllOrders : (o1.week = o2.week /\ o1.by = o2.by) => o1 = o2

\* C4: at most one Shipment exists for each (week, shippedFrom, shippedTo)
\* triple, with a single quantity and arrival week, after any sequence of
\* pipelines and re-runs; a Create Shipments step leaves the shipments of
\* every triple that already had one as they were.
C4_OneShipmentPerTriple ==
    /\ [](\A s1, s2 \in AllShipments :
            (s1.week = s2.week /\ s1.from = s2.from /\ s1.to = s2.to) => s1 = s2)
    /\ [][(phase = "Rules" /\ last'.kind = "shipments") =>
            \A s \in AllShipments :
                {t \in UNION {store'[a].shipments : a \in Actors} :
                    t.week = s.week /\ t.from = s.from /\ t.to = s.to} = {s}
         ]_vars
\* a re-run's Create Shipments step for an actor whose shipment of the week
\* already exists
C4_Witness ==
    /\ snap # {}
    /\ last.kind = "shipments" /\ last.ok
    /\ \E s \in UNION {p[last.actor].shipments : p \in snap} :
          s.week = week /\ s.from = last.actor
    /\ \E o \in AllOrders : o.week = week /\ o.to = last.actor

\* C5: within one run of the pipeline the first application is Demand Rate
\* Smoothing for the first actor; every later application is for the same
\* rule and the next actor, or, after the last actor, for the first actor and
\* either the next rule of the fixed order of nine or a further pass of the
\* same federated rule (1 or 2); the run ends only after Total Cost
\* Calculation has been applied to the last actor.
C5_FixedRuleOrder ==
    [][phase = "Rules" =>
        /\ last'.name \in {FixedOrder[i] : i \in 1..Len(FixedOrder)}
        /\ IF stage = 1 /\ idx = 1
           THEN Pos(last'.name) = 1 /\ last'.actor = ActorSeq[1]
           ELSE \/ /\ Pos(last'.name) = Pos(last.name)
                   /\ last'.kind = last.kind
                   /\ ActorPos(last.actor) < NActors
                   /\ last'.actor = ActorSeq[ActorPos(last.actor) + 1]
                \/ /\ last.actor = ActorSeq[NActors]
                   /\ last'.actor = ActorSeq[1]
                   /\ \/ Pos(last'.name) = Pos(last.name) + 1
                      \/ /\ Pos(last'.name) = Pos(last.name)
                         /\ Pos(last.name) \in {1, 2}
                         /\ last'.kind # last.kind
        /\ phase' = "RulesApplied" =>
              Pos(last'.name) = Len(FixedOrder) /\ last'.actor = ActorSeq[NActors]
      ]_vars
\* a pipeline run that has gone through all nine rules for all four actors
C5_Witness ==
    /\ phase = "RulesApplied"
    /\ last.name = "TOTAL COST CALCULATION"
    /\ last.actor = "Factory"
    /\ executed + failed = Len(FixedOrder) * NActors

\* C6: the week's steps happen in the order anchor creation, customer-demand
\* injection, rule pipeline, summary collection: week entities and snapshots
\* are created only by the first step of a week, customer demand is written
\* only right after it, rules are applied only after the demand step, and the
\* summary is collected only after the pipeline has ended; the week number
\* changes only by +1 and only after the summary of the current week has been
\* collected, so the summarised weeks are consecutive and increasing.
C6_WeekStepOrder ==
    [][/\ (\E a \in Actors : \/ store'[a].weeks # store[a].weeks
                             \/ DOMAIN store'[a].metrics # DOMAIN store[a].metrics
                             \/ DOMAIN store'[a].inv # DOMAIN store[a].inv)
          => phase = "WeekStart" /\ phase' = "AnchorCreated"
       /\ (\E a \in Actors : store'[a].demand # store[a].demand)
          => phase = "AnchorCreated" /\ phase' = "DemandInjected"
       /\ phase' = "AnchorCreated" => phase = "WeekStart"
       /\ phase' = "DemandInjected" => phase = "AnchorCreated"
       /\ (phase' = "Rules" /\ phase # "Rules") => phase = "DemandInjected"
       /\ last' # last => phase = "Rules"
       /\ phase' = "RulesApplied" => phase = "Rules"
       /\ phase' = "SummaryCollected" => phase = "RulesApplied"
       /\ results' # results =>
             /\ phase = "RulesApplied" /\ phase' = "SummaryCollected"
             /\ results' = Append(results, week)
       /\ (week' # week /\ phase # "Start") =>
             /\ week' = week + 1
             /\ phase = "SummaryCollected" /\ phase' = "WeekStart"
             /\ results # <<>> /\ results[Len(results)] = week
       /\ \A i \in 1..(Len(results') - 1) : results'[i + 1] = results'[i] + 1
      ]_vars
\* week 3 has started after week 2 went through all four steps
C6_Witness ==
    /\ phase = "AnchorCreated"
    /\ week = 3
    /\ results = <<2>>
    /\ 3 \in store["Retailer"].weeks

\* C7: every step of the pipeline made for actor A leaves the partitions of
\* the other three actors unchanged and posts its writes to A's own
\* repository only, never to the federated repository.
C7_WritesOwnPartitionOnly ==
    [][phase = "Rules" =>
        /\ \A b \in Actors \ {last'.actor} : store'[b] = store[b]
        /\ last'.writes \subseteq {last'.actor}
        /\ SupplyChain \notin last'.writes
      ]_vars
\* a shipment created from an order read through the federation
C7_Witness ==
    /\ last.kind = "shipments" /\ last.ok
    /\ last.writes = {last.actor}
    /\ \E s \in store[last.actor].shipments : s.week = week /\ s.from = last.actor
    /\ \E o \in AllOrders : o.week = week /\ o.to = last.actor /\ o.by # last.actor

C10_NoFailureAborts == phase # "Aborted"

\* C11: a rule application that ends as failed was posted more than once: the
\* failed post was retried before the application was given up.
C11_FailedApplicationWasRetried ==
    (last.kind = "rule" /\ ~last.ok) => last.attempts > 1

\* C12: at the end of a week of the game, every role whose player's decision
\* failed has no order for the week (quantity 0 places none) and has an entry
\* of the week with decision 0 in its player's decision log.
C12_FailedDecisionIsZeroAndLogged ==
    phase = "GameSummaryCollected" =>
        \A a \in FailedTurns :
            /\ ~\E o \in AllOrders : o.week = week /\ o.by = a
            /\ \E i \in DOMAIN history[a] :
                  history[a][i].week = week /\ history[a][i].decision = 0

\* the order of the built-in policy as stated: the target is TargetCoverage
\* weeks of demand
StatedOrder(rate, currentStock, backlog) ==
    LET target == RMul(rate, RInt(TargetCoverage))
        order == RAdd(RSub(target, RInt(currentStock)), RInt(backlog))
    IN IF order[1] > 0 THEN RCeil(order) ELSE 0
\* C13: whenever the ORDER-UP-TO POLICY rule stores the suggestedOrderQuantity
\* of actor A's week N, and whenever AlgorithmicPlayer.decide answers, the
\* quantity is ceil(max(demandRate * 3 - currentStock + backlog, 0)) of the
\* demand rate, stock and backlog of A's week N.
C13_OrderUpToFormula ==
    [][/\ \A a \in Actors : \A N \in DOMAIN store[a].metrics :
            (/\ ~store[a].metrics[N].polCalc
             /\ N \in DOMAIN store'[a].metrics
             /\ store'[a].metrics[N].polCalc)
            => store'[a].metrics[N].suggested =
                  StatedOrder(store[a].metrics[N].rate, store[a].inv[N].stock,
                              store[a].inv[N].backlog)
       /\ (last'.name = "AlgorithmicPlayer.decide" /\ last' # last)
          => LET p == store[last'.actor]
             IN decisions'[last'.actor].decision =
                  StatedOrder(p.metrics[week].rate, p.inv[week].stock,
                              p.inv[week].backlog)
      ]_vars

\* C14: in every state, the suggestedOrderQuantity of every ActorMetrics, the
\* decision of every entry play_turn logged and the quantity of every Order
\* is a non-negative integer, whatever the policy returned.
C14_QuantitiesNonNegativeIntegers ==
    \A a \in Actors :
        /\ \A w \in DOMAIN store[a].metrics : store[a].metrics[w].suggested \in Nat
        /\ \A i \in DOMAIN history[a] : history[a][i].decision \in Nat
        /\ \A o \in store[a].orders : o.qty \in Nat
\* a policy returned a negative quantity and another state of the same run
\* holds a suggestedOrderQuantity the rule computed
C14_Witness ==
    /\ \E a \in Actors : \E i \in DOMAIN history[a] :
          /\ history[a][i].returned[1] < 0
          /\ history[a][i].decision = 0
    /\ \E a \in Actors : \E w \in DOMAIN store[a].metrics :
          store[a].metrics[w].polCalc /\ store[a].metrics[w].suggested > 0
    /\ \E o \in AllOrders : o.uri = "rule"

\* the ratio of an order to the baseline of its week is defined and above 1.3
RatioAbove(p, o) ==
    LET baseline == IF o.week \in DOMAIN p.demand THEN RInt(p.demand[o.week])
                    ELSE p.metrics[o.week].rate
    IN /\ baseline[1] > 0
       /\ 13 * baseline[1] < 10 * o.qty * baseline[2]
C17_CoverageIsStockOverRate ==
    (last.name = "INVENTORY COVERAGE CALCULATION" /\ last.ok)
    => LET p == store[last.actor]
           m == p.metrics[week]
       IN /\ m.rate[1] > 0 =>
                CoverageValues(m) = {Rat(p.inv[week].stock * m.rate[2], m.rate[1])}
          /\ \A c \in CoverageValues(m) : c[1] >= 0
          /\ m.rate[1] = 0 => CoverageValues(m) = {}

\* the cost of one snapshot: holdingCost 0.5 per unit of stock, backlogCost
\* 1.0 per unit of backlog
SnapshotCost(i) == RAdd(RMul(RInt(i.stock), <<1, 2>>), RInt(i.backlog))
RECURSIVE SumOfCosts(_, _)
SumOfCosts(inv, W) ==
    IF W = {} THEN RInt(0)
    ELSE LET w == CHOOSE w \in W : TRUE
         IN RAdd(SnapshotCost(inv[w]), SumOfCosts(inv, W \ {w}))
\* the repository the rule was applied to
InputOf(a) == (CHOOSE f \in snap : TRUE)[a]
C19_SmoothingReplacesAboveFivePercent ==
    (last.name = "DEMAND RATE SMOOTHING" /\ last.ok)
    => LET before == InputOf(last.actor).metrics[week]
           old == before.rate
           new == store[last.actor].metrics[week].rate
           observed == IF before.tempObs = {} THEN old
                       ELSE CHOOSE v \in before.tempObs : TRUE
           smoothed == <<3 * observed[1] * old[2] + 7 * old[1] * observed[2],
                         10 * observed[2] * old[2]>>
           delta == Abs(smoothed[1] * old[2] - old[1] * smoothed[2])
           \* |smoothed - old| / old > 1/20, all denominators positive
           above == 20 * delta * old[2] > old[1] * smoothed[2] * old[2]
       IN /\ (old[1] = 0 \/ above) => new[1] * smoothed[2] = smoothed[1] * new[2]
          /\ ~(old[1] = 0 \/ above) => new = old
          /\ before.tempObs = {} => new = old
\* a rate of 4 with an observed demand of 12 has been replaced by 6.4
C19_Witness ==
    /\ last.name = "DEMAND RATE SMOOTHING"
    /\ last.ok
    /\ InputOf(last.actor).metrics[week].rate = RInt(4)
    /\ InputOf(last.actor).metrics[week].tempObs = {RInt(12)}
    /\ store[last.actor].metrics[week].rate = <<32, 5>>

\* C20: the processed flag of a snapshot is set by UPDATE INVENTORY only, and
\* once it is set it stays set and no later step, a later execution of UPDATE
\* INVENTORY in the same or a later week's run included, changes the
\* snapshot's stock or backlog.
C20_ProcessedSnapshotIsFrozen ==
    [][\A a \in Actors : \A N \in DOMAIN store[a].inv :
        /\ store[a].inv[N].processed
            => /\ N \in DOMAIN store'[a].inv
               /\ store'[a].inv[N].processed
               /\ store'[a].inv[N].stock = store[a].inv[N].stock
               /\ store'[a].inv[N].backlog = store[a].inv[N].backlog
        /\ (/\ ~store[a].inv[N].processed
            /\ N \in DOMAIN store'[a].inv
            /\ store'[a].inv[N].processed)
            => /\ last'.name = "UPDATE INVENTORY"
               /\ last'.ok
               /\ last'.actor = a
      ]_vars
\* UPDATE INVENTORY has run again on a repository whose snapshot of the week
\* was processed before the repeated run, with arrivals handed to the rule
C20_Witness ==
    /\ reruns > 0
    /\ last.name = "UPDATE INVENTORY"
    /\ last.ok
    /\ week \in DOMAIN store[last.actor].inv
    /\ store[last.actor].inv[week].processed
    /\ store[last.actor].inv[week].tempArr # {}
    /\ \A v \in store[last.actor].inv[week].tempArr : v > 0
    /\ \E f \in snap : f[last.actor].inv[week].processed

\* the shipment answering an order: same week, from the order's receiver to
\* its placer, the order's quantity, arriving after the receiver's lead time
Answers(s, o) ==
    /\ s.week = o.week
    /\ s.from = o.to
    /\ s.to = o.by
    /\ s.qty = o.qty
    /\ s.arrival = o.week + ShippingDelay
\* C21: when the pipeline of week N has completed and no store access has
\* failed, every Order of week N placed by P with R has a Shipment of week N
\* from R to P with the same quantity and arrivalWeek = N + leadTime(R); no
\* order is created once the Create Shipments steps of the run have begun, and
\* a Create Shipments step that succeeds for R leaves every order of week N
\* received by R answered in R's repository.
C21_OrdersAnsweredByShipments ==
    /\ []((phase \in {"RulesApplied", "SummaryCollected"} /\ faults = 0) =>
            \A o \in AllOrders : o.week = week =>
                \E s \in store[o.to].shipments : Answers(s, o))
    /\ [][(phase = "Rules" /\ last'.kind = "shipments" /\ last' # last) =>
            /\ UNION {store'[a].orders : a \in Actors} = AllOrders
            /\ \A a \in Actors :
                  \/ week \notin MetricWeeks(store[a])
                  \/ store[a].metrics[week].suggested = 0
                  \/ \E o \in store[a].orders : o.week = week /\ o.by = a
                  \/ ~\E o \in store[a].orders : o.by = a
                  \/ faults > 0
            /\ last'.ok =>
                  \A o \in AllOrders : (o.week = week /\ o.to = last'.actor) =>
                      \E s \in store'[last'.actor].shipments : Answers(s, o)
         ]_vars
\* week 3 of the spike run has completed without a failure: the Retailer's
\* order of the week, larger than the loaded one, is answered by the
\* Wholesaler's shipment arriving in week 5
C21_Witness ==
    /\ phase = "RulesApplied"
    /\ faults = 0
    /\ week = 3
    /\ \E o \in store["Retailer"].orders :
          /\ o.week = 3 /\ o.by = "Retailer" /\ o.to = "Wholesaler"
          /\ o.qty > InitOrderQty
          /\ \E s \in store["Wholesaler"].shipments :
                Answers(s, o) /\ s.arrival = 5 /\ s.qty = o.qty

\* the shipments of any repository addressed to a and arriving in week N
ShipmentsArriving(a, N) == {s \in AllShipments : s.to = a /\ s.arrival = N}
\* C22: whenever UPDATE INVENTORY settles the snapshot of actor A for week N,
\* the arrivals it adds to A's stock, that is (newStock - newBacklog) -
\* (oldStock - oldBacklog) + demand, equal the sum of the quantities of all
\* Shipments of all repositories with shippedTo = A and arrivalWeek = N.
C22_ArrivalsAreFederatedSum ==
    [][\A a \in Actors : \A N \in Weeks :
        (/\ N \in DOMAIN store[a].inv
         /\ (N - 1) \in DOMAIN store[a].inv
         /\ ~store[a].inv[N].processed
         /\ N \in DOMAIN store'[a].inv
         /\ store'[a].inv[N].processed)
        => LET old == store[a].inv[N - 1]
               new == store'[a].inv[N]
               demand == DemandThisWeek(store[a], a, N)
           IN (new.stock - new.backlog) - (old.stock - old.backlog) + demand
                 = SumQty(ShipmentsArriving(a, N))
      ]_vars

C24_SnapshotsCreatedFromDefaults ==
    [][(/\ phase = "WeekStart"
        /\ phase' = "AnchorCreated"
        /\ faults' = faults
        /\ week > 1)
       => \A a \in Actors :
            /\ (week - 1) \notin DOMAIN store[a].inv
                 => /\ week \in DOMAIN store'[a].inv
                    /\ store'[a].inv[week].stock = InitStock
                    /\ store'[a].inv[week].backlog = 0
            /\ (week - 1) \notin DOMAIN store[a].metrics
                 => /\ week \in DOMAIN store'[a].metrics
                    /\ store'[a].metrics[week].rate = RInt(DefaultDemandRate)
      ]_vars

\* C25: after the anchor of a week N > 1 has been created, every actor has
\* its one Inventory snapshot and its one ActorMetrics of week N; a snapshot
\* created by the step carries the stock and backlog of the actor's week N-1
\* snapshot, metrics created by it carry the demandRate of week N-1; when
\* the creation is repeated for the same week, a snapshot and metrics that
\* existed are left as they were.
C25_OneSeededSnapshotPerActorAndWeek ==
    [][(/\ week > 1
        /\ \/ phase = "WeekStart" /\ phase' = "AnchorCreated"
           \/ last'.kind = "anchor" /\ last' # last)
       => \A a \in Actors :
            /\ week \in DOMAIN store'[a].inv
            /\ week \in DOMAIN store'[a].metrics
            /\ IF week \in DOMAIN store[a].inv
               THEN store'[a].inv[week] = store[a].inv[week]
               ELSE /\ (week - 1) \in DOMAIN store[a].inv
                    /\ store'[a].inv[week].stock = store[a].inv[week - 1].stock
                    /\ store'[a].inv[week].backlog = store[a].inv[week - 1].backlog
            /\ IF week \in DOMAIN store[a].metrics
               THEN store'[a].metrics[week] = store[a].metrics[week]
               ELSE /\ (week - 1) \in DOMAIN store[a].metrics
                    /\ store'[a].metrics[week].rate = store[a].metrics[week - 1].rate
      ]_vars

\* the entities of week M in a repository: snapshot, metrics, orders and
\* shipments, without the temporary values the federated rules hand over
WeekEntities(p, M) ==
    [inv |-> IF M \in DOMAIN p.inv THEN {[p.inv[M] EXCEPT !.tempArr = {}]} ELSE {},
     metrics |-> IF M \in DOMAIN p.metrics
                 THEN {[p.metrics[M] EXCEPT !.tempObs = {}]} ELSE {},
     orders |-> {o \in p.orders : o.week = M},
     shipments |-> {s \in p.shipments : s.week = M}]
\* C26: no step of the pipeline run of a week N creates or changes an entity
\* of an earlier simulated week M, 1 < M < N (week 1 is loaded, it has no
\* pipeline run of its own): the snapshot, the metrics, the orders and the
\* shipments of week M in every repository are after the step what they were
\* before it.
C26_EarlierWeeksUntouched ==
    [][phase = "Rules" =>
        \A a \in Actors : \A M \in Weeks :
            (1 < M /\ M < week) =>
                WeekEntities(store'[a], M) = WeekEntities(store[a], M)
      ]_vars

\* the repositories when the actors started on their local rules
StartOf(a) == (CHOOSE f \in snap : TRUE)[a]
\* the demand actor a observes in the repositories as they were at the start
ObservedAtStart(a) ==
    IF week \in DOMAIN StartOf(a).demand THEN {RInt(StartOf(a).demand[week])}
    ELSE IF week = 1 THEN {}
    ELSE LET rows == {o \in UNION {StartOf(b).orders : b \in Actors} :
                        o.week = week - 1 /\ o.to = a}
         IN {IF rows = {} THEN RInt(0) ELSE Rat(SumQty(rows), Cardinality(rows))}
\* the repository of a after the first k steps of rule 1, and after the first
\* k of rules 3 to 6, computed from a's own repository at the start alone
RECURSIVE AfterStepsA(_, _)
AfterStepsA(a, k) ==
    IF k = 0 THEN StartOf(a)
    ELSE LET p == AfterStepsA(a, k - 1)
         IN CASE k = 1 -> IF ObservedAtStart(a) # {} /\ week \in DOMAIN p.metrics
                          THEN [p EXCEPT !.metrics[week].tempObs =
                                  @ \cup ObservedAtStart(a)]
                          ELSE p
              [] k = 2 -> DemandRateSmoothing(p, a)
              [] OTHER -> WithoutTemp(p, "DEMAND RATE SMOOTHING")
RECURSIVE AfterStepsB(_, _)
AfterStepsB(a, k) ==
    IF k = 0 THEN StartOf(a)
    ELSE ApplyRule(LocalStepsB[k].name, AfterStepsB(a, k - 1), a)
NoRationale == {"None", "No decisions yet", "No reasoning provided"}
\* C28: every entry play_turn has logged in the game carries a rationale, and
\* the rationale describes the entry's own turn: the week and the decision
\* its text was built from are the week and the decision of the entry.
C28_ReasoningDescribesLoggedDecision ==
    \A a \in Actors : \A i \in DOMAIN history[a] :
        LET e == history[a][i]
        IN /\ e.reasoning.text \notin NoRationale
           /\ e.reasoning.week = e.week
           /\ e.reasoning.decision = e.decision

\* C29: in a run of the stable pattern without a failed store access, which
\* starts with stock 12, backlog 0 and demandRate 4.0 for all four actors, no
\* hasBullwhipRisk and no hasStockoutRisk of any actor and week is ever true,
\* and once the pipeline of a week N >= 3 has completed the
\* suggestedOrderQuantity of every actor for week N is 4.
C29_StableRunHasNoRiskAndOrdersFour ==
    (pattern = "stable" /\ faults = 0) =>
        \A a \in Actors : \A N \in DOMAIN store[a].metrics :
            /\ ~store[a].metrics[N].bullwhip
            /\ ~store[a].metrics[N].stockout
            /\ (/\ N >= 3
                /\ \/ N < week
                   \/ N = week /\ phase \in {"RulesApplied", "SummaryCollected", "Done"})
               => store[a].metrics[N].suggested = StableDemand

\* C30: in a run of the spike pattern without a failed store access, once
\* DEMAND RATE SMOOTHING of week 3 has been applied to all repositories the
\* Retailer's demandRate of week 3 is 6.4, and once ORDER-UP-TO POLICY has
\* stored the Retailer's suggestedOrderQuantity of week 3 it equals
\* ceil(max(6.4 * 3 - stock + backlog, 0)) of the Retailer's week-3 snapshot.
C30_SpikeRateAndSuggestedOrder ==
    (/\ pattern = "spike"
     /\ faults = 0
     /\ week = 3
     /\ \/ phase \in {"RulesApplied", "SummaryCollected", "Done"}
        \/ phase = "Rules" /\ (StageSeq[stage].rule > 1 \/ StageSeq[stage].kind = "cleanup"))
    => LET m == store["Retailer"].metrics[3]
           i == store["Retailer"].inv[3]
           fifths == 32 * 3 - 5 * i.stock + 5 * i.backlog
       IN /\ m.rate = <<32, 5>>
          /\ m.polCalc => m.suggested = IF fifths > 0 THEN (fifths + 4) \div 5 ELSE 0
\* week 3 of the spike run has completed: the Retailer's rate is 6.4, its
\* stock and backlog are 0 after a demand of 12, and it is to order 20
C30_Witness ==
    /\ pattern = "spike"
    /\ faults = 0
    /\ week = 3
    /\ phase = "RulesApplied"
    /\ store["Retailer"].demand[3] = SpikeDemand
    /\ store["Retailer"].metrics[2].rate = RInt(DefaultDemandRate)
    /\ store["Retailer"].metrics[3].rate = <<32, 5>>
    /\ store["Retailer"].metrics[3].polCalc
    /\ store["Retailer"].inv[3].processed
    /\ store["Retailer"].inv[3].stock = 0
    /\ store["Retailer"].inv[3].backlog = 0
    /\ store["Retailer"].metrics[3].suggested = 20

\* max(0, int(demand_rate * target_coverage - inventory + backlog)) in whole
\* numbers: the rate is n/d, the quotient of a positive numerator is cut off
TruncatedOrder(rate, inventory, backlog) ==
    LET n == rate[1] * TargetCoverage - (inventory - backlog) * rate[2]
    IN IF n > 0 THEN n \div rate[2] ELSE 0
C32_OneEntryPerCompletedTurn ==
    [][\A a \in Actors :
        LET h == history[a]
            h2 == history'[a]
        IN IF /\ phase = "PlayerTurns"
              /\ a = Actor
              /\ decisions'[a].outcome # "exception"
           THEN /\ Len(h2) = Len(h) + 1
                /\ SubSeq(h2, 1, Len(h)) = h
                /\ h2[Len(h2)].week = week
                /\ h2[Len(h2)].decision = decisions'[a].decision
                /\ h2[Len(h2)].decision =
                     (LET r == h2[Len(h2)].returned
                      IN IF r[1] <= 0 THEN 0 ELSE r[1] \div r[2])
           ELSE h2 = h
      ]_vars
\* the Retailer's player has completed its turns of weeks 2 and 3 with
\* different decisions
C32_Witness ==
    /\ phase = "GameDone"
    /\ Len(history["Retailer"]) = 2
    /\ history["Retailer"][1].week = 2
    /\ history["Retailer"][1].decision = 7
    /\ history["Retailer"][2].week = 3
    /\ history["Retailer"][2].decision = 4
    /\ Len(history["Wholesaler"]) = 2

Undecided == {a \in Actors : decisions[a].outcome = "none"}
\* C33: in a week of GameOrchestratorV3 every step of rules 1 to 4 is taken
\* while no player has decided, the players take their turns in the order
\* Retailer, Wholesaler, Distributor, Factory, and every step of rules 5 to 9
\* is taken once all four have had their turn; when the turns begin after a
\* run without a failed access, rules 1 to 4 have been applied for all actors,
\* and as long as a player has not decided, the week has no value of rule 5
\* and no shipment of rule 7.
C33_RulesAroundPlayerTurns ==
    [][/\ phase \in {"GameRulesPre", "GameRulesPost"}
            => IF StageSeq[stage].rule <= 4
               THEN Undecided = Actors
               ELSE Undecided = {}
       /\ phase = "PlayerTurns"
            => /\ Undecided = {ActorSeq[i] : i \in idx..NActors}
               /\ decisions'[ActorSeq[idx]].outcome # "none"
               /\ \A a \in Actors \ {ActorSeq[idx]} : decisions'[a] = decisions[a]
       /\ (phase = "GameRulesPre" /\ phase' = "PlayerTurns" /\ faults' = 0)
            => /\ StageSeq[stage].name = "STOCKOUT RISK DETECTION"
               /\ idx = NActors
               /\ \A a \in Actors :
                    /\ store'[a].inv[week].processed
                    /\ store'[a].metrics[week].covCalc
                    /\ store'[a].metrics[week].tempObs = {}
       /\ (Undecided # {} /\ phase \in {"GameRulesPre", "PlayerTurns"})
            => /\ \A a \in Actors : week \in DOMAIN store[a].metrics
                    => ~store[a].metrics[week].polCalc
               /\ \A a \in Actors : \A s \in store[a].shipments : s.week # week
      ]_vars
\* ORDER-UP-TO POLICY of week 3 is about to be applied for the Retailer, the
\* four players having decided after the stockout rule
C33_Witness ==
    /\ phase = "GameRulesPost"
    /\ week = 3
    /\ StageSeq[stage].name = "ORDER-UP-TO POLICY"
    /\ idx = 1
    /\ last.name = "STOCKOUT RISK DETECTION"
    /\ last.actor = "Factory"
    /\ \A a \in Actors : decisions[a].outcome = "decides"
    /\ decisions["Retailer"].decision = 7
    /\ ~store["Retailer"].metrics[3].polCalc

\* C34: at the end of a week of GameOrchestratorV3 every Order of (week,
\* actor) has the quantity the actor's player decided for the week, and an
\* actor whose decision was 0 has no Order for the week.
C34_OrdersFollowPlayerDecisions ==
    phase \in {"GameRulesApplied", "GameSummaryCollected"}
    => \A a \in Actors :
         LET placed == {o \in AllOrders : o.week = week /\ o.by = a}
         IN IF decisions[a].decision = 0
            THEN placed = {}
            ELSE \A o \in placed : o.qty = decisions[a].decision

\* the orders the actor has received for the week from its downstream actor,
\* wherever they are stored
OrdersReceived(a, N) == {o \in AllOrders : o.week = N /\ o.to = a /\ o.by = Downstream(a)}
\* C35: when the pipeline of week N has completed without a failed access, the
\* snapshot of week N of every actor A other than the Retailer is the week
\* N-1 snapshot plus the arrivals of week N, settled against the total
\* quantity q of the orders A received for week N from its downstream actor:
\* q lowers A's stock or raises A's backlog.
C35_ReceivedOrdersAreTheDemand ==
    (phase = "RulesApplied" /\ faults = 0 /\ week > 1)
    => \A a \in Actors \ {"Retailer"} :
         LET old == store[a].inv[week - 1]
             new == store[a].inv[week]
             q == SumQty(OrdersReceived(a, week))
             afterArrival == old.stock + SumQty(ShipmentsArriving(a, week))
             need == q + old.backlog
         IN /\ new.processed
            /\ new.stock = IF afterArrival >= need THEN afterArrival - need ELSE 0
            /\ new.backlog = IF afterArrival >= need THEN 0 ELSE need - afterArrival

\* the fallback of _query_current_state
FallbackObservation ==
    [inventory |-> 0, backlog |-> 0, demand_rate |-> RInt(DefaultDemandRate),
     coverage |-> RInt(0)]
\* C36: the observation a player's completed turn of week N logs holds the
\* stock, backlog, demand rate and coverage stored in the actor's
\* InventorySnapshot and ActorMetrics of week N at that moment, and the
\* fallback values only when the actor has no snapshot for the week.
C36_ObservationIsTheStoredState ==
    [][(phase = "PlayerTurns" /\ history'[ActorSeq[idx]] # history[ActorSeq[idx]])
       => LET a == ActorSeq[idx]
              p == store[a]
              e == history'[a][Len(history'[a])]
          IN IF week \in DOMAIN p.inv /\ week \in DOMAIN p.metrics
             THEN e.observation =
                    [inventory |-> p.inv[week].stock,
                     backlog |-> p.inv[week].backlog,
                     demand_rate |-> p.metrics[week].rate,
                     coverage |-> p.metrics[week].coverage]
             ELSE e.observation = FallbackObservation
      ]_vars

\* the highest week the store holds when run_simulation is called
MaxExisting == MaxOf(UNION {InitialRepository(a).weeks : a \in Actors})
\* C37: run_simulation(weeks) simulates the weeks max_existing + 1, ..., weeks
\* in increasing order, max_existing being the highest week the store already
\* holds: the week being simulated is never an existing one, the weeks whose
\* summary was collected are max_existing + 1, max_existing + 2, ... in that
\* order, and the run ends with all of them up to weeks, or with none when
\* max_existing >= weeks.
C37_SimulatesOnlyNewWeeksInOrder ==
    /\ phase \notin {"Start", "Done"} => week > MaxExisting
    /\ \A i \in 1..Len(results) : results[i] = MaxExisting + i
    /\ phase = "Done" => Len(results) = IF MaxExisting >= MaxWeek THEN 0
                                        ELSE MaxWeek - MaxExisting

\* what a step adds to the stock of actor a in settling a's snapshot of week
\* N: the change of stock less backlog against week N-1, the demand put back
ArrivalsAdded(a, N) ==
    LET old == store[a].inv[N - 1]
        new == store'[a].inv[N]
    IN (new.stock - new.backlog) - (old.stock - old.backlog)
         + DemandThisWeek(store[a], a, N)
\* the step settles a's snapshot of week N
Settles(a, N) ==
    /\ N \in DOMAIN store[a].inv
    /\ (N - 1) \in DOMAIN store[a].inv
    /\ ~store[a].inv[N].processed
    /\ N \in DOMAIN store'[a].inv
    /\ store'[a].inv[N].processed
\* C38: every Shipment is added to its recipient's stock once, by the
\* Inventory Update of its arrivalWeek and by no other: a step that settles
\* the recipient's snapshot of week N adds the quantities of the shipments
\* arriving in week N and of no shipment arriving in another week, a settled
\* snapshot is not settled again, and when the pipeline of week N completes
\* the recipient of every shipment arriving in week N has its snapshot of
\* week N settled.
C38_EveryShipmentAddedOnceOnArrival ==
    [][/\ \A s \in AllShipments : \A N \in Weeks :
            Settles(s.to, N)
            => ArrivalsAdded(s.to, N) =
                 SumQty({x \in AllShipments : x.to = s.to /\ x.arrival = N})
       /\ \A s \in AllShipments :
            (s.arrival \in DOMAIN store[s.to].inv /\ store[s.to].inv[s.arrival].processed)
            => /\ store'[s.to].inv[s.arrival].processed
               /\ store'[s.to].inv[s.arrival].stock = store[s.to].inv[s.arrival].stock
               /\ store'[s.to].inv[s.arrival].backlog = store[s.to].inv[s.arrival].backlog
       /\ (phase' = "RulesApplied" /\ phase # "RulesApplied")
            => \A s \in AllShipments :
                 s.arrival = week
                 => /\ week \in DOMAIN store'[s.to].inv
                    /\ store'[s.to].inv[week].processed
      ]_vars

\* C39: in every state every InventorySnapshot has stock >= 0 and backlog
\* >= 0, and a snapshot UPDATE INVENTORY has processed has stock 0 or
\* backlog 0.
C39_StockAndBacklogNeverBothOwed ==
    \A a \in Actors : \A N \in DOMAIN store[a].inv :
        LET i == store[a].inv[N]
        IN /\ i.stock \in Nat
           /\ i.backlog \in Nat
           /\ i.processed => (i.stock = 0 \/ i.backlog = 0)
\* the Retailer's snapshots have been settled with stock left over in week 2
\* and with a backlog in week 3
C39_Witness ==
    /\ phase = "RulesApplied"
    /\ week = 3
    /\ {2, 3} \subseteq DOMAIN store["Retailer"].inv
    /\ store["Retailer"].inv[2].processed
    /\ store["Retailer"].inv[2].stock = 8
    /\ store["Retailer"].inv[2].backlog = 0
    /\ store["Retailer"].inv[3].processed
    /\ store["Retailer"].inv[3].stock = 0
    /\ store["Retailer"].inv[3].backlog = 4

\* C40: an actor's totalCost never decreases: no step removes the total or
\* replaces it by a smaller one, so the total after the pipeline of week N+1
\* is at least the total after the pipeline of week N.
C40_TotalCostNeverDecreases ==
    [][\A a \in Actors :
        store[a].totalCost # {}
        => /\ store'[a].totalCost # {}
           /\ \A old \in store[a].totalCost : \A new \in store'[a].totalCost :
                ~RLt(new, old)
      ]_vars
\* the Retailer's total has grown from 4.0 after week 2 (stock 8) to 8.0
\* after week 3 (stock 8 again)
C40_Witness ==
    /\ phase = "RulesApplied"
    /\ week = 3
    /\ {2, 3} \subseteq DOMAIN store["Retailer"].inv
    /\ store["Retailer"].inv[2].processed
    /\ store["Retailer"].inv[2].stock = 8
    /\ store["Retailer"].inv[3].processed
    /\ store["Retailer"].inv[3].stock = 8
    /\ store["Retailer"].totalCost = {RInt(8)}
    /\ last.name = "TOTAL COST CALCULATION"

====
